---- MODULE Spec2Model ----
(***************************************************************************)
(* Model of card_evaluation_tools/generate_popularity.py: the two CSV      *)
(* loaders and remove_low_value_decklists.                                 *)
(*                                                                         *)
(* A Python str is a sequence of one-character strings; a value of a row   *)
(* is Str(s) or None (csv.DictReader fills the columns a short row lacks   *)
(* with None).  A row is a function from column names to values.  A dict   *)
(* is the sequence of its <<key, value>> items in insertion order.         *)
(* Decklist ids are opaque strings that the code only compares for         *)
(* equality; they are written as the naturals 1..MaxKeys.                  *)
(***************************************************************************)
EXTENDS Integers, Sequences, FiniteSets, TLC

VARIABLES
    decklists,                    \* dict id -> row (argument, mutated in place)
    decklist_stats,               \* dict decklist_id -> row (argument, mutated in place)
    min_likes,                    \* argument
    pc,                           \* position in remove_low_value_decklists
    idx,                          \* items of decklist_stats already iterated
    to_remove,
    removed_for_likes,
    removed_for_previous_next,
    removed_for_duplicate_slots,
    seen_slots_hashes,
    warnings,                     \* ids of the "Warning: Invalid likes value" lines printed
    raised,                       \* the exception that escaped, or "none"
    calls,                        \* number of calls of the routine so far
    decklists_in,                 \* the decklists argument as it was at the call
    decklist_stats_in,            \* the decklist_stats argument as it was at the call
    printed,                      \* the removal reports printed so far, one per call
    loader,                       \* which loader runs: its key column
    file_exists,                  \* whether open(csv_path) finds the file
    csv_rows,                     \* the data lines of the file, each a sequence of fields
    lpc,                          \* position in the loader
    row_idx,                      \* rows already read by the csv reader
    loaded,                       \* the loader's local dict (decklists / decklist_stats)
    messages                      \* what the loader printed

filterVars == <<decklists, decklist_stats, min_likes, pc, idx, to_remove,
                removed_for_likes, removed_for_previous_next,
                removed_for_duplicate_slots, seen_slots_hashes, warnings, raised,
                calls, decklists_in, decklist_stats_in, printed>>
loaderVars == <<loader, file_exists, csv_rows, lpc, row_idx, loaded, messages>>
vars == <<filterVars, loaderVars>>

-----------------------------------------------------------------------------
(* Bounds *)
MaxKeys == 3        \* decklist ids are 1..MaxKeys
MaxMinLikes == 2    \* min_likes ranges over 0..MaxMinLikes
MaxCalls == 2       \* the routine is called at most this many times in a row
MaxRows == 3        \* data lines of a csv file

-----------------------------------------------------------------------------
(* Python values *)
Str(s) == <<"str", s>>
None == <<"none", <<>>>>
IsStr(v) == v[1] = "str"

IsSpace(c) == c \in {" ", "\t", "\n"}

RECURSIVE LStrip(_)
LStrip(s) == IF s # <<>> /\ IsSpace(Head(s)) THEN LStrip(Tail(s)) ELSE s

RECURSIVE RStrip(_)
RStrip(s) ==
    IF s # <<>> /\ IsSpace(s[Len(s)]) THEN RStrip(SubSeq(s, 1, Len(s) - 1)) ELSE s

\* str.strip()
Strip(s) == RStrip(LStrip(s))

Digits == <<"0", "1", "2", "3", "4", "5", "6", "7", "8", "9">>
IsDigit(c) == \E i \in 1..10 : Digits[i] = c
DigitVal(c) == (CHOOSE i \in 1..10 : Digits[i] = c) - 1

RECURSIVE DigitsValue(_, _)
DigitsValue(s, acc) ==
    IF s = <<>> THEN acc
    ELSE IF Head(s) = "_" THEN DigitsValue(Tail(s), acc)
    ELSE DigitsValue(Tail(s), acc * 10 + DigitVal(Head(s)))

\* The digits part of an integer literal: digits, single underscores between them.
IsDigitsBody(s) ==
    /\ s # <<>>
    /\ \A i \in 1..Len(s) : IsDigit(s[i]) \/ s[i] = "_"
    /\ IsDigit(s[1]) /\ IsDigit(s[Len(s)])
    /\ \A i \in 1..(Len(s) - 1) : ~(s[i] = "_" /\ s[i + 1] = "_")

\* int(s) for a str s: surrounding whitespace and a sign are accepted; anything
\* else raises ValueError.
PyIntOfStr(s) ==
    LET t == Strip(s)
        signed == t # <<>> /\ Head(t) \in {"+", "-"}
        body == IF signed THEN Tail(t) ELSE t
    IN  IF IsDigitsBody(body)
        THEN [kind |-> "int",
              val |-> IF signed /\ Head(t) = "-" THEN 0 - DigitsValue(body, 0)
                      ELSE DigitsValue(body, 0)]
        ELSE [kind |-> "ValueError", val |-> 0]

-----------------------------------------------------------------------------
(* Python dicts, as sequences of <<key, value>> items in insertion order *)
DictKeys(d) == {d[i][1] : i \in 1..Len(d)}
DictHas(d, k) == \E i \in 1..Len(d) : d[i][1] = k
DictGet(d, k) == d[CHOOSE i \in 1..Len(d) : d[i][1] = k][2]
KeySeq(d) == [i \in 1..Len(d) |-> d[i][1]]

\* Variant: an existing key is dropped and appended again, so that it moves to
\* the end.
DictSetMoveToEnd(d, k, v) == Append(SelectSeq(d, LAMBDA item : item[1] # k), <<k, v>>)

\* d[k] = v: a new key is appended; an existing key keeps its place and takes v.
DictSet(d, k, v) ==
    IF DictHas(d, k)
    THEN [i \in 1..Len(d) |-> IF d[i][1] = k THEN <<k, v>> ELSE d[i]]
    ELSE Append(d, <<k, v>>)

\* del d[k]
DictDel(d, k) == SelectSeq(d, LAMBDA item : item[1] # k)

\* row.get(col, default)
RowGet(row, col, default) == IF col \in DOMAIN row THEN row[col] ELSE default

-----------------------------------------------------------------------------
(* remove_low_value_decklists: the checks of one iteration of the scan *)

\* int(stats.get('likes', 0)): a row without the column gives int(0); None is no
\* argument of int() and raises TypeError, which `except ValueError` lets through.
LikesInt(stats) ==
    IF "likes" \notin DOMAIN stats THEN [kind |-> "int", val |-> 0]
    ELSE IF ~IsStr(stats["likes"]) THEN [kind |-> "TypeError", val |-> 0]
    ELSE PyIntOfStr(stats["likes"][2])

\* Variant: likes <= min_likes
LikesBelowOrEqual(likes, min) == likes <= min

\* likes < min_likes
LikesBelow(likes, min) == likes < min

\* decklist.get(col, '').strip(): None has no strip() and raises AttributeError.
FieldStrip(decklist, col) ==
    LET v == RowGet(decklist, col, Str(<<>>))
    IN  IF IsStr(v) THEN [kind |-> "str", val |-> Strip(v[2])]
        ELSE [kind |-> "AttributeError", val |-> <<>>]

\* Variant: if previous_deck
ChainLinkedPreviousOnly(previous_deck, next_deck) == previous_deck # <<>>

\* if previous_deck or next_deck
ChainLinked(previous_deck, next_deck) == previous_deck # <<>> \/ next_deck # <<>>

\* hashlib.md5(slots.encode('utf-8')).hexdigest(): a 128-bit digest.  Distinct
\* strings over the model's alphabet have distinct digests; the digest is written
\* as the number whose base-CharBase digits are the codes of the characters.
Alphabet == <<" ", "\t", "\n", "X", "Y", "A", "B", "x", "_", "+", "-",
              "0", "1", "2", "3", "4", "5", "6", "7", "8", "9">>
CharCode(c) == CHOOSE i \in 1..Len(Alphabet) : Alphabet[i] = c
CharBase == Len(Alphabet) + 1

RECURSIVE Md5Hex(_)
Md5Hex(s) ==
    IF s = <<>> THEN 0 ELSE CharCode(s[Len(s)]) + CharBase * Md5Hex(SubSeq(s, 1, Len(s) - 1))

\* Variant: the chain check is skipped for a record the likes check marked.
ChainCheckedIfUnmarked(should_remove) == ~should_remove

\* The chain check is not under `if not should_remove`: it runs whatever the
\* likes check decided.
ChainChecked(should_remove) == TRUE

\* if slots_hash in seen_slots_hashes
SeenBefore(slots_hash, seen) == slots_hash \in seen

\* Variant: the duplicate check runs for marked records too.
SlotsCheckedAlways(should_remove) == TRUE

\* if not should_remove: the duplicate check runs only for a record that the
\* likes and chain checks left unmarked.
SlotsChecked(should_remove) == ~should_remove

\* One iteration of `for decklist_id, stats in decklist_stats.items()`: what it
\* adds to the counters, to the seen hashes and to to_remove, or the exception it
\* raises.  The fields are in the order the code reaches them: an exception keeps
\* what was done before it.
Iteration(decklist_id, stats, decks, min, seen) ==
    LET lk == LikesInt(stats)
        likesRaised == lk.kind = "TypeError"
        likesMarked == lk.kind = "int" /\ LikesBelow(lk.val, min)
        warned == lk.kind = "ValueError"
        inDecks == ~likesRaised /\ DictHas(decks, decklist_id)
        decklist == DictGet(decks, decklist_id)
        prev == FieldStrip(decklist, "previous_deck")
        next == FieldStrip(decklist, "next_deck")
        chainRaised == inDecks /\ (prev.kind # "str" \/ next.kind # "str")
        chainMarked == /\ inDecks /\ ~chainRaised /\ ChainChecked(likesMarked)
                       /\ ChainLinked(prev.val, next.val)
        slotsRead == inDecks /\ ~chainRaised /\ SlotsChecked(likesMarked \/ chainMarked)
        slots == FieldStrip(decklist, "slots")
        slotsRaised == slotsRead /\ slots.kind # "str"
        hashed == slotsRead /\ ~slotsRaised /\ slots.val # <<>>
        slots_hash == Md5Hex(slots.val)
        dupMarked == hashed /\ SeenBefore(slots_hash, seen)
    IN  [raised |-> IF likesRaised THEN "TypeError"
                    ELSE IF chainRaised \/ slotsRaised THEN "AttributeError"
                    ELSE "none",
         likes_inc |-> IF likesMarked THEN 1 ELSE 0,
         warned |-> warned,
         chain_inc |-> IF chainMarked THEN 1 ELSE 0,
         dup_inc |-> IF dupMarked THEN 1 ELSE 0,
         seen |-> IF hashed /\ ~dupMarked THEN seen \cup {slots_hash} ELSE seen,
         should_remove |-> likesMarked \/ chainMarked \/ dupMarked]

\* Variant: the deletion loop stops after the first marked key.
DeleteFromDecklistsFirstOnly(decks, ids) ==
    IF ids = <<>> \/ ~DictHas(decks, Head(ids)) THEN decks ELSE DictDel(decks, Head(ids))

\* for decklist_id in to_remove: delete from decklists, guarded by membership
RECURSIVE DeleteFromDecklists(_, _)
DeleteFromDecklists(decks, ids) ==
    IF ids = <<>> THEN decks
    ELSE DeleteFromDecklists(
            IF DictHas(decks, Head(ids)) THEN DictDel(decks, Head(ids)) ELSE decks,
            Tail(ids))

\* Variant: a marked key is deleted from the stats only under the guard of the
\* decklists deletion, `if decklist_id in decklists`.
RECURSIVE DeleteFromStatsJoined(_, _)
DeleteFromStatsJoined(stats, ids) ==
    IF ids = <<>> THEN stats
    ELSE DeleteFromStatsJoined(
            IF DictHas(stats, Head(ids)) /\ DictHas(decklists, Head(ids))
            THEN DictDel(stats, Head(ids)) ELSE stats,
            Tail(ids))

\* Variant: the marked keys are not deleted from the stats.
DeleteFromStatsSkipped(stats, ids) == stats

\* for decklist_id in to_remove: delete from decklist_stats, guarded by membership
RECURSIVE DeleteFromStats(_, _)
DeleteFromStats(stats, ids) ==
    IF ids = <<>> THEN stats
    ELSE DeleteFromStats(
            IF DictHas(stats, Head(ids)) THEN DictDel(stats, Head(ids)) ELSE stats,
            Tail(ids))

-----------------------------------------------------------------------------
(* remove_low_value_decklists: the steps *)

\* One iteration of the scan that completes.
ScanStep ==
    /\ pc = "scan" /\ idx < Len(decklist_stats)
    /\ \E r \in {Iteration(decklist_stats[idx + 1][1], decklist_stats[idx + 1][2],
                            decklists, min_likes, seen_slots_hashes)} :
       LET decklist_id == decklist_stats[idx + 1][1]
       IN  /\ r.raised = "none"
           /\ removed_for_likes' = removed_for_likes + r.likes_inc
           /\ warnings' = IF r.warned THEN Append(warnings, decklist_id) ELSE warnings
           /\ removed_for_previous_next' = removed_for_previous_next + r.chain_inc
           /\ removed_for_duplicate_slots' = removed_for_duplicate_slots + r.dup_inc
           /\ seen_slots_hashes' = r.seen
           /\ to_remove' = IF r.should_remove THEN Append(to_remove, decklist_id)
                           ELSE to_remove
    /\ idx' = idx + 1
    /\ UNCHANGED <<decklists, decklist_stats, min_likes, pc, raised, calls,
                   decklists_in, decklist_stats_in, printed, loaderVars>>

\* One iteration of the scan that raises: the exception leaves the routine.
ScanRaise ==
    /\ pc = "scan" /\ idx < Len(decklist_stats)
    /\ \E r \in {Iteration(decklist_stats[idx + 1][1], decklist_stats[idx + 1][2],
                            decklists, min_likes, seen_slots_hashes)} :
       LET decklist_id == decklist_stats[idx + 1][1]
       IN  /\ r.raised # "none"
           /\ raised' = r.raised
           /\ removed_for_likes' = removed_for_likes + r.likes_inc
           /\ warnings' = IF r.warned THEN Append(warnings, decklist_id) ELSE warnings
           /\ removed_for_previous_next' = removed_for_previous_next + r.chain_inc
    /\ pc' = "raised"
    /\ UNCHANGED <<decklists, decklist_stats, min_likes, idx, to_remove,
                   removed_for_duplicate_slots, seen_slots_hashes, calls,
                   decklists_in, decklist_stats_in, printed, loaderVars>>

\* The scan is over: the marked keys are deleted from both dicts, the counts are
\* printed and the routine returns.
DeleteMarked ==
    /\ pc = "scan" /\ idx = Len(decklist_stats)
    /\ decklists' = DeleteFromDecklists(decklists, to_remove)
    /\ decklist_stats' = DeleteFromStats(decklist_stats, to_remove)
    /\ printed' = Append(printed,
                         [removed |-> Len(to_remove),
                          likes |-> removed_for_likes,
                          previous_next |-> removed_for_previous_next,
                          duplicate_slots |-> removed_for_duplicate_slots])
    /\ pc' = "done"
    /\ UNCHANGED <<min_likes, idx, to_remove, removed_for_likes,
                   removed_for_previous_next, removed_for_duplicate_slots,
                   seen_slots_hashes, warnings, raised, calls, decklists_in,
                   decklist_stats_in, loaderVars>>

\* The caller runs the routine again on the two dicts it left, with the same
\* min_likes: the locals start afresh.
CallAgain ==
    /\ pc = "done" /\ calls < MaxCalls
    /\ calls' = calls + 1
    /\ pc' = "scan"
    /\ idx' = 0
    /\ to_remove' = <<>>
    /\ removed_for_likes' = 0
    /\ removed_for_previous_next' = 0
    /\ removed_for_duplicate_slots' = 0
    /\ seen_slots_hashes' = {}
    /\ warnings' = <<>>
    /\ decklists_in' = decklists
    /\ decklist_stats_in' = decklist_stats
    /\ UNCHANGED <<decklists, decklist_stats, min_likes, raised, printed, loaderVars>>

-----------------------------------------------------------------------------
(* The arguments of remove_low_value_decklists *)

Keys == 1..MaxKeys

NoRow == [absent |-> TRUE]

\* Stats rows of id k: likes an integer, a non-numeric string, None (a short csv
\* line), or no likes column.
StatsLikes(k, v) == [decklist_id |-> k, likes |-> v]
StatsNoLikes(k) == [decklist_id |-> k]

\* Decklist rows of id k.
DeckPlain(k) ==
    [id |-> k, previous_deck |-> Str(<<>>), next_deck |-> Str(<<>>),
     slots |-> Str(<<"X">>)]
DeckSpaces(k) ==
    [id |-> k, previous_deck |-> Str(<<" ">>), slots |-> Str(<<" ", "X", " ">>)]
DeckPrev(k) ==
    [id |-> k, previous_deck |-> Str(<<"A">>), next_deck |-> Str(<<>>),
     slots |-> Str(<<"X">>)]
DeckNext(k) ==
    [id |-> k, previous_deck |-> Str(<<>>), next_deck |-> Str(<<"B">>),
     slots |-> None]
DeckOther(k) ==
    [id |-> k, previous_deck |-> Str(<<>>), next_deck |-> Str(<<>>),
     slots |-> Str(<<"Y">>)]
DeckNoSlots(k) == [id |-> k, next_deck |-> Str(<<>>), slots |-> Str(<<" ">>)]
DeckNoneSlots(k) ==
    [id |-> k, previous_deck |-> Str(<<>>), next_deck |-> Str(<<>>), slots |-> None]

\* What the two files hold for an id that has a stats row.
WithStats(k) ==
    { [stats |-> StatsLikes(k, Str(<<"1">>)), deck |-> NoRow],
      [stats |-> StatsNoLikes(k), deck |-> NoRow],
      [stats |-> StatsLikes(k, None), deck |-> NoRow],
      [stats |-> StatsLikes(k, Str(<<"x">>)), deck |-> DeckPlain(k)],
      [stats |-> StatsLikes(k, Str(<<"x">>)), deck |-> DeckPrev(k)] }
    \cup { [stats |-> StatsLikes(k, Str(<<"1">>)), deck |-> d] :
             d \in {DeckPlain(k), DeckSpaces(k), DeckPrev(k), DeckNext(k),
                    DeckOther(k), DeckNoSlots(k), DeckNoneSlots(k)} }

\* What the two files hold for an id that has no stats row.
WithoutStats(k) ==
    { [stats |-> NoRow, deck |-> NoRow],
      [stats |-> NoRow, deck |-> DeckPlain(k)],
      [stats |-> NoRow, deck |-> DeckPrev(k)] }

\* The rows of ids k..MaxKeys, the ids 1..n having a stats row (the routine
\* compares ids only for equality, so which ids have one does not matter).
RECURSIVE Inputs(_, _)
Inputs(k, n) ==
    IF k > MaxKeys THEN {<<>>}
    ELSE { <<p>> \o rest :
             p \in (IF k <= n THEN WithStats(k) ELSE WithoutStats(k)),
             rest \in Inputs(k + 1, n) }

\* The dict a loader builds from the rows of `col` ("stats" or "deck"), keyed
\* by id, in file order.
RECURSIVE DictOfRows(_, _, _)
DictOfRows(rows, col, k) ==
    IF rows = <<>> THEN <<>>
    ELSE (IF Head(rows)[col] = NoRow THEN <<>> ELSE <<<<k, Head(rows)[col]>>>>)
         \o DictOfRows(Tail(rows), col, k + 1)

Init ==
    /\ \E n \in 0..MaxKeys : \E rows \in Inputs(1, n) :
          /\ decklists = DictOfRows(rows, "deck", 1)
          /\ decklist_stats = DictOfRows(rows, "stats", 1)
    /\ min_likes \in 0..MaxMinLikes
    /\ pc = "scan"
    /\ idx = 0
    /\ to_remove = <<>>
    /\ removed_for_likes = 0
    /\ removed_for_previous_next = 0
    /\ removed_for_duplicate_slots = 0
    /\ seen_slots_hashes = {}
    /\ warnings = <<>>
    /\ raised = "none"
    /\ calls = 1
    /\ decklists_in = decklists
    /\ decklist_stats_in = decklist_stats
    /\ printed = <<>>
    /\ loader = "id"
    /\ file_exists = TRUE
    /\ csv_rows = <<>>
    /\ lpc = "returned"
    /\ row_idx = 0
    /\ loaded = <<>>
    /\ messages = <<>>

Next == ScanStep \/ ScanRaise \/ DeleteMarked \/ CallAgain

Spec == Init /\ [][Next]_vars

-----------------------------------------------------------------------------
(* load_decklists_data and load_decklist_stats_data.  The two differ in the     *)
(* file they read and in the key column; `loader` is the key column.           *)

\* The header line of the file.
Header(key_column) ==
    IF key_column = "id" THEN <<"id", "previous_deck", "next_deck", "slots">>
    ELSE <<"decklist_id", "likes">>

\* csv.DictReader: the row of a data line, by column; the columns a short line
\* lacks are None.
DictRow(header, fields) ==
    [c \in {header[i] : i \in 1..Len(header)} |->
        LET i == CHOOSE j \in 1..Len(header) : header[j] = c
        IN  IF i <= Len(fields) THEN fields[i] ELSE None]

\* decklists[decklist_id] = row, for the rows read in order.
RECURSIVE InsertRows(_, _, _)
InsertRows(d, key_column, lines) ==
    IF lines = <<>> THEN d
    ELSE LET row == DictRow(Header(key_column), Head(lines))
         IN  InsertRows(DictSet(d, row[key_column], row), key_column, Tail(lines))

\* open() raises FileNotFoundError: reported, and the empty dict is returned.
LoadFileNotFound ==
    /\ lpc = "open" /\ ~file_exists
    /\ messages' = Append(messages, "not_found")
    /\ lpc' = "returned"
    /\ UNCHANGED <<loader, file_exists, csv_rows, row_idx, loaded, filterVars>>

LoadOpen ==
    /\ lpc = "open" /\ file_exists
    /\ lpc' = "read"
    /\ UNCHANGED <<loader, file_exists, csv_rows, row_idx, loaded, messages,
                   filterVars>>

\* for row in csv_reader: the next row is inserted under its key.
LoadRow ==
    /\ lpc = "read" /\ row_idx < Len(csv_rows)
    /\ loaded' = InsertRows(loaded, loader, <<csv_rows[row_idx + 1]>>)
    /\ row_idx' = row_idx + 1
    /\ UNCHANGED <<loader, file_exists, csv_rows, lpc, messages, filterVars>>

\* Variant: the error handler empties the dict before it is returned.
LoadErrorClears ==
    /\ lpc = "read"
    /\ messages' = Append(messages, "error")
    /\ loaded' = <<>>
    /\ lpc' = "returned"
    /\ UNCHANGED <<loader, file_exists, csv_rows, row_idx, filterVars>>

\* Reading raises another exception (the file cannot be read or decoded, the
\* csv module rejects a line): `except Exception` reports it and the dict is
\* returned as it is.
LoadError ==
    /\ lpc = "read"
    /\ messages' = Append(messages, "error")
    /\ lpc' = "returned"
    /\ UNCHANGED <<loader, file_exists, csv_rows, row_idx, loaded, filterVars>>

\* The file is read through: the count is printed and the dict returned.
LoadFinish ==
    /\ lpc = "read" /\ row_idx = Len(csv_rows)
    /\ messages' = Append(messages, "loaded")
    /\ lpc' = "returned"
    /\ UNCHANGED <<loader, file_exists, csv_rows, row_idx, loaded, filterVars>>

\* The data lines of a file: complete lines and lines cut short.
Lines(key_column) ==
    IF key_column = "id"
    THEN UNION { { <<k, Str(<<>>), Str(<<>>), Str(<<"X">>)>>,
                   <<k, Str(<<"A">>), Str(<<>>), Str(<<"Y">>)>>,
                   <<k, Str(<<>>), Str(<<"B">>)>> } : k \in Keys }
    ELSE UNION { { <<k, Str(<<"1">>)>>, <<k, Str(<<"x">>)>>, <<k>> } : k \in Keys }

InitLoad ==
    /\ loader \in {"id", "decklist_id"}
    /\ file_exists \in BOOLEAN
    /\ csv_rows \in UNION { [1..n -> Lines(loader)] : n \in 0..MaxRows }
    /\ file_exists = FALSE => csv_rows = <<>>
    /\ lpc = "open"
    /\ row_idx = 0
    /\ loaded = <<>>
    /\ messages = <<>>
    /\ decklists = <<>>
    /\ decklist_stats = <<>>
    /\ min_likes = 1
    /\ pc = "done"
    /\ idx = 0
    /\ to_remove = <<>>
    /\ removed_for_likes = 0
    /\ removed_for_previous_next = 0
    /\ removed_for_duplicate_slots = 0
    /\ seen_slots_hashes = {}
    /\ warnings = <<>>
    /\ raised = "none"
    /\ calls = 0
    /\ decklists_in = <<>>
    /\ decklist_stats_in = <<>>
    /\ printed = <<>>

NextLoad == LoadFileNotFound \/ LoadOpen \/ LoadRow \/ LoadError \/ LoadFinish

SpecLoad == InitLoad /\ [][NextLoad]_vars

-----------------------------------------------------------------------------
(* What the claims speak of, read off the arguments of the call *)

Range(seq) == {seq[i] : i \in 1..Len(seq)}
StatsKeysIn == DictKeys(decklist_stats_in)
DecksKeysIn == DictKeys(decklists_in)
JoinedKeysIn == StatsKeysIn \cap DecksKeysIn

\* The position of k in the iteration over the stats dict.
PosIn(k) == CHOOSE i \in 1..Len(decklist_stats_in) : decklist_stats_in[i][1] = k

HasLikes(row) == "likes" \in DOMAIN row
LikesIsText(row) == HasLikes(row) /\ row["likes"][1] = "str"
LikesParses(row) == LikesIsText(row) /\ PyIntOfStr(row["likes"][2]).kind = "int"

\* likes parses as an integer strictly below min_likes
ParsedBelow(row) == LikesParses(row) /\ PyIntOfStr(row["likes"][2]).val < min_likes

\* the same, a row without a likes column counting as 0 likes
CountsBelow(row) == ParsedBelow(row) \/ (~HasLikes(row) /\ 0 < min_likes)

\* The field of a row without its surrounding whitespace; empty when the row
\* has no such text.
Trimmed(row, col) ==
    IF col \in DOMAIN row /\ row[col][1] = "str" THEN Strip(row[col][2]) ELSE <<>>

LowLikesIn(k) == CountsBelow(DictGet(decklist_stats_in, k))
ChainedIn(k) ==
    /\ k \in DecksKeysIn
    /\ \/ Trimmed(DictGet(decklists_in, k), "previous_deck") # <<>>
       \/ Trimmed(DictGet(decklists_in, k), "next_deck") # <<>>
SlotsIn(k) == Trimmed(DictGet(decklists_in, k), "slots")

Returned == pc = "done"
Survives(k) == DictHas(decklists, k) /\ DictHas(decklist_stats, k)
Gone(k) == ~DictHas(decklists, k) /\ ~DictHas(decklist_stats, k)

\* The row the step about to be taken looks at.
CurrentRow == decklist_stats[idx + 1][2]
CurrentId == decklist_stats[idx + 1][1]
\* A step that runs one iteration of the scan, to its end or to an exception.
IterationStep == pc = "scan" /\ (idx' = idx + 1 \/ pc' = "raised")

-----------------------------------------------------------------------------
(* C1: no exception escapes remove_low_value_decklists, whatever the two     *)
(* mappings hold: the routine is never left by an exception.               *)
C1_NoExceptionEscapes == pc # "raised" /\ raised = "none"

(* C2, as stated: an iteration increments the likes counter, and marks the   *)
(* record, exactly when likes parses as an integer strictly below          *)
(* min_likes; a record without likes or with non-numeric likes is not      *)
(* marked by the likes check and is warned about.                          *)
C2_LikesPredicateAsStated ==
    [][IterationStep =>
         removed_for_likes' =
            removed_for_likes + (IF ParsedBelow(CurrentRow) THEN 1 ELSE 0)]_vars

(* C2, amended: an iteration increments the likes counter exactly when likes *)
(* parses as an integer strictly below min_likes, a record without a likes *)
(* column counting as 0 likes; it then marks the record.  A record whose   *)
(* likes equals min_likes, or is a non-numeric string, leaves the counter  *)
(* alone, and exactly the non-numeric strings are warned about.            *)
C2_LikesPredicate ==
    [][IterationStep =>
         /\ removed_for_likes' =
              removed_for_likes + (IF CountsBelow(CurrentRow) THEN 1 ELSE 0)
         /\ (CountsBelow(CurrentRow) /\ pc' = "scan") => CurrentId \in Range(to_remove')
         /\ warnings' =
              IF LikesIsText(CurrentRow) /\ ~LikesParses(CurrentRow)
              THEN Append(warnings, CurrentId) ELSE warnings]_vars

\* A record without a likes column has been marked by the likes check.
C2_Witness ==
    /\ pc = "scan" /\ idx = 2 /\ calls = 1 /\ Len(decklist_stats) >= 2
    /\ ~HasLikes(decklist_stats[1][2]) /\ ~DictHas(decklists, 1)
    /\ HasLikes(decklist_stats[2][2])
    /\ decklist_stats[2][2]["likes"] = Str(<<"x">>)
    /\ removed_for_likes = 1 /\ to_remove = <<1>> /\ warnings = <<2>>

(* C3: when the routine returns, every key with a stats record and a       *)
(* decklist whose previous_deck or next_deck is non-empty after trimming   *)
(* is gone from both mappings, whatever its likes and slots; the chain     *)
(* counter counts exactly these keys, and a key whose two fields are empty *)
(* or blank, whose likes are not low and whose slots are empty survives.   *)
C3_ChainExclusion ==
    Returned =>
        /\ \A k \in JoinedKeysIn : ChainedIn(k) => Gone(k)
        /\ removed_for_previous_next = Cardinality({k \in JoinedKeysIn : ChainedIn(k)})
        /\ \A k \in JoinedKeysIn :
              (~ChainedIn(k) /\ ~LowLikesIn(k) /\ SlotsIn(k) = <<>>) => Survives(k)

\* A chained decklist with unparsable likes, and one chained through next_deck
\* only, have been removed; a decklist with a blank previous_deck was kept.
C3_Witness ==
    /\ Returned /\ calls = 1 /\ Len(decklist_stats_in) = 3
    /\ HasLikes(decklist_stats_in[1][2])
    /\ decklist_stats_in[1][2]["likes"] = Str(<<"x">>) /\ ChainedIn(1)
    /\ ChainedIn(2) /\ Trimmed(DictGet(decklists_in, 2), "previous_deck") = <<>>
    /\ 3 \in DecksKeysIn
    /\ "previous_deck" \in DOMAIN DictGet(decklists_in, 3)
    /\ DictGet(decklists_in, 3)["previous_deck"] = Str(<<" ">>)
    /\ Gone(1) /\ Gone(2) /\ Survives(3)
    /\ removed_for_previous_next = 2 /\ removed_for_likes = 0

\* The keys the duplicate check looks at: a decklist record, not marked by the
\* likes or the chain check, non-empty trimmed slots.
Eligible == {k \in JoinedKeysIn : ~LowLikesIn(k) /\ ~ChainedIn(k) /\ SlotsIn(k) # <<>>}
FirstOfContent(k) ==
    \A j \in Eligible : SlotsIn(j) = SlotsIn(k) => PosIn(k) <= PosIn(j)

(* C4: when the routine returns, of the eligible keys sharing the same     *)
(* trimmed slots exactly the first in stats order survives and the later   *)
(* ones are gone from both mappings; the duplicate counter is the number   *)
(* of eligible keys minus the number of distinct contents; only eligible   *)
(* keys registered their content.                                          *)
C4_FirstSeenSurvives ==
    Returned =>
        /\ \A k \in Eligible : IF FirstOfContent(k) THEN Survives(k) ELSE Gone(k)
        /\ removed_for_duplicate_slots =
              Cardinality(Eligible) - Cardinality({SlotsIn(k) : k \in Eligible})
        /\ Cardinality(seen_slots_hashes) = Cardinality({SlotsIn(k) : k \in Eligible})

\* The first of three decklists with the same content was marked by the chain
\* check: the second survives and the third is removed as its duplicate.
C4_Witness ==
    /\ Returned /\ calls = 1 /\ Len(decklist_stats_in) = 3
    /\ \A k \in 1..3 : k \in DecksKeysIn /\ SlotsIn(k) = <<"X">>
    /\ ChainedIn(1) /\ Eligible = {2, 3}
    /\ DictGet(decklists_in, 2) # DictGet(decklists_in, 3)
    /\ Gone(1) /\ Survives(2) /\ Gone(3)
    /\ removed_for_duplicate_slots = 1

(* C5: a key with a decklist record and no stats record keeps its record,  *)
(* unchanged, at every point of the routine; when the routine returns, a   *)
(* key with a stats record and no decklist record is gone from stats       *)
(* exactly when its likes are low, and is still absent from decklists.     *)
C5_OrphanKeys ==
    /\ \A k \in DecksKeysIn \ StatsKeysIn :
          DictHas(decklists, k) /\ DictGet(decklists, k) = DictGet(decklists_in, k)
    /\ Returned =>
          \A k \in StatsKeysIn \ DecksKeysIn :
             /\ ~DictHas(decklists, k)
             /\ DictHas(decklist_stats, k) <=> ~LowLikesIn(k)
             /\ DictHas(decklist_stats, k) =>
                   DictGet(decklist_stats, k) = DictGet(decklist_stats_in, k)

\* A stats-only key with low likes was removed while a chained decklist-only
\* key, with the content of a surviving decklist, was left alone.
C5_Witness ==
    /\ Returned /\ calls = 1
    /\ KeySeq(decklist_stats_in) = <<1, 2>> /\ DecksKeysIn = {2, 3}
    /\ LowLikesIn(1) /\ ~DictHas(decklist_stats, 1)
    /\ Survives(2) /\ ChainedIn(3) /\ SlotsIn(3) = SlotsIn(2)
    /\ DictHas(decklists, 3)

LowLikesKeys == {k \in StatsKeysIn : LowLikesIn(k)}
ChainedKeys == {k \in JoinedKeysIn : ChainedIn(k)}
CounterSum ==
    removed_for_likes + removed_for_previous_next + removed_for_duplicate_slots

(* C6: when the routine returns, the likes counter counts every key with   *)
(* low likes and the chain counter every chained key, a key with both      *)
(* being counted by both; the duplicate counter counts the marked keys     *)
(* that neither of the two counts; every key is recorded for deletion at   *)
(* most once, and is deleted; so the counters sum to the number of removed *)
(* keys plus the number of keys counted twice.                             *)
C6_NonExclusiveCounters ==
    Returned =>
        /\ removed_for_likes = Cardinality(LowLikesKeys)
        /\ removed_for_previous_next = Cardinality(ChainedKeys)
        /\ removed_for_duplicate_slots =
              Cardinality(Range(to_remove) \ (LowLikesKeys \cup ChainedKeys))
        /\ Cardinality(Range(to_remove)) = Len(to_remove)
        /\ LowLikesKeys \cup ChainedKeys \subseteq Range(to_remove)
        /\ \A k \in Range(to_remove) : ~DictHas(decklist_stats, k) /\ ~DictHas(decklists, k)
        /\ CounterSum = Len(to_remove) + Cardinality(LowLikesKeys \cap ChainedKeys)
        /\ CounterSum >= Len(to_remove)

\* One record has low likes and a previous_deck: both counters count it, and the
\* counters sum to more than the keys removed.
C6_Witness ==
    /\ Returned /\ calls = 1
    /\ 1 \in LowLikesKeys \cap ChainedKeys
    /\ to_remove = <<1, 3>>
    /\ removed_for_likes = 1 /\ removed_for_previous_next = 1
    /\ removed_for_duplicate_slots = 1
    /\ CounterSum > Len(to_remove)

-----------------------------------------------------------------------------
LastMessage == messages[Len(messages)]
LoaderReturned == lpc = "returned"
RowsRead == SubSeq(csv_rows, 1, row_idx)
LineKey(line) == line[1]
RowOfLine(line) == DictRow(Header(loader), line)

\* The keys of the lines in the order of their first / last occurrence.
RECURSIVE FirstOccurrences(_)
FirstOccurrences(keys) ==
    IF keys = <<>> THEN <<>>
    ELSE LET front == SubSeq(keys, 1, Len(keys) - 1)
             last == keys[Len(keys)]
         IN  IF last \in Range(front) THEN FirstOccurrences(front)
             ELSE Append(FirstOccurrences(front), last)

RECURSIVE LastOccurrences(_)
LastOccurrences(keys) ==
    IF keys = <<>> THEN <<>>
    ELSE IF Head(keys) \in Range(Tail(keys)) THEN LastOccurrences(Tail(keys))
    ELSE <<Head(keys)>> \o LastOccurrences(Tail(keys))

KeysRead == [i \in 1..row_idx |-> LineKey(RowsRead[i])]
LastLineOf(k) == RowsRead[CHOOSE i \in 1..row_idx :
                    /\ LineKey(RowsRead[i]) = k
                    /\ \A j \in (i + 1)..row_idx : LineKey(RowsRead[j]) # k]

\* One entry per key read, holding the row of the last line with that key.
LastWins ==
    /\ DictKeys(loaded) = Range(KeysRead)
    /\ Len(loaded) = Cardinality(Range(KeysRead))
    /\ \A k \in DictKeys(loaded) : DictGet(loaded, k) = RowOfLine(LastLineOf(k))

(* C7, as stated: a loader that met a missing file or any other error      *)
(* returns the empty mapping.                                              *)
C7_FailureYieldsEmptyAsStated ==
    (LoaderReturned /\ LastMessage \in {"not_found", "error"}) => loaded = <<>>

(* C7, amended: a loader that met a missing file returns the empty         *)
(* mapping; one that met another error returns, without raising, the       *)
(* mapping of the rows read before the error: one entry per key read,      *)
(* empty only when no row had been read.                                   *)
C7_FailureYieldsRowsRead ==
    /\ (LoaderReturned /\ LastMessage = "not_found") => loaded = <<>>
    /\ (LoaderReturned /\ LastMessage = "error") =>
          /\ LastWins
          /\ (loaded = <<>>) <=> (row_idx = 0)

\* An error after two rows: the loader returned the two rows.
C7_Witness ==
    /\ LoaderReturned /\ LastMessage = "error"
    /\ row_idx = 2 /\ Len(csv_rows) = 3 /\ Len(loaded) = 2

(* C8, as stated: the mapping has one entry per key, holding the last row  *)
(* with that key, and its iteration order is the file order of the rows    *)
(* that survive the collapsing (the last row of each key).                 *)
C8_LastWinsAsStated == LastWins /\ KeySeq(loaded) = LastOccurrences(KeysRead)

(* C8, amended: the mapping has one entry per key, holding the last row    *)
(* with that key, and its iteration order is the order in which the keys   *)
(* first occur in the file: a later row replaces the record of its key     *)
(* and leaves the key in its place.                                        *)
C8_LastWinsFirstPlace == LastWins /\ KeySeq(loaded) = FirstOccurrences(KeysRead)

\* A file read through whose first and third lines share a key: the entry holds
\* the third line and stays before the entry of the second line.
C8_Witness ==
    /\ LoaderReturned /\ LastMessage = "loaded" /\ Len(csv_rows) = 3
    /\ LineKey(csv_rows[1]) = 1 /\ LineKey(csv_rows[2]) = 2 /\ LineKey(csv_rows[3]) = 1
    /\ csv_rows[1] # csv_rows[3]
    /\ loaded = <<<<1, RowOfLine(csv_rows[3])>>, <<2, RowOfLine(csv_rows[2])>>>>

-----------------------------------------------------------------------------
Kept(d) == SelectSeq(d, LAMBDA item : item[1] \notin Range(to_remove))

(* C9: until the scan is over both mappings are as they were at the call;  *)
(* when the routine returns each holds the items it held at the call whose *)
(* keys were not marked, unchanged and in the same order: nothing is       *)
(* inserted, and the marked keys are the stats keys only.                  *)
C9_DeferredRemovalOnly ==
    /\ pc \in {"scan", "raised"} =>
          decklists = decklists_in /\ decklist_stats = decklist_stats_in
    /\ Range(to_remove) \subseteq StatsKeysIn
    /\ Returned =>
          /\ idx = Len(decklist_stats_in)
          /\ decklists = Kept(decklists_in)
          /\ decklist_stats = Kept(decklist_stats_in)

\* Two of three keys were marked and deleted from both mappings.
C9_Witness ==
    /\ Returned /\ calls = 1 /\ Len(to_remove) = 2
    /\ Len(decklist_stats_in) = 3 /\ Len(decklists_in) = 3
    /\ Len(decklist_stats) = 1 /\ Len(decklists) = 1

(* C10: a second call with the same min_likes on the mappings the first    *)
(* call left marks nothing, counts nothing, raises nothing and leaves both *)
(* mappings as they are.                                                   *)
C10_Idempotent ==
    calls >= 2 =>
        /\ pc # "raised" /\ raised = "none"
        /\ to_remove = <<>>
        /\ removed_for_likes = 0
        /\ removed_for_previous_next = 0
        /\ removed_for_duplicate_slots = 0
        /\ decklists = decklists_in /\ decklist_stats = decklist_stats_in
        /\ Returned =>
              printed[calls] = [removed |-> 0, likes |-> 0, previous_next |-> 0,
                                duplicate_slots |-> 0]

\* The second call returned; the first had removed one decklist for its chain
\* link and another as a duplicate, and left a third.
C10_Witness ==
    /\ Returned /\ calls = 2
    /\ printed[1] = [removed |-> 2, likes |-> 0, previous_next |-> 1,
                     duplicate_slots |-> 1]
    /\ printed[2] = [removed |-> 0, likes |-> 0, previous_next |-> 0,
                     duplicate_slots |-> 0]
    /\ KeySeq(decklist_stats) = <<2>>
    /\ Len(decklists) = 1
====
